---- MODULE Spec2Model ----
(***************************************************************************)
(* Model of the two batch jobs of auto_avsr:                               *)
(*   split_video_audio.py    - process_directory_recursively /             *)
(*                             split_video_audio (ffmpeg demux)            *)
(*   audio_transcription.py  - process_audio_directory /                   *)
(*                             transcribe_audio_with_whisper               *)
(* The file system is part of the state.  A directory path is a sequence   *)
(* of components, a file name is a sequence of tokens whose last token is  *)
(* the extension (<<"talk", "_audio", ".wav">> is talk_audio.wav), and a   *)
(* file path is a record [dir, file].                                      *)
(***************************************************************************)
EXTENDS Naturals, Sequences, FiniteSets, TLC

VARIABLES
    tree,             \* the files of the input tree as the behaviour found them
    dirs,             \* the directories that exist
    files,            \* the files that exist: file path -> content
    pc,               \* "idle", "running", "done" (returned) or "aborted" (uncaught exception)
    job,              \* "split" or "transcribe": the entry point this behaviour runs, and re-runs
    runs,             \* number of runs started so far
    completed,        \* number of runs that returned their count
    input_dir,        \* its input_dir argument
    output_dir,       \* its output_dir / output_base_dir argument
    matched,          \* the entries the walk of the current run selects (audio_files)
    todo,             \* the matched entries the loop has not reached yet
    processed_count,  \* processed_count of the current run
    status,           \* per matched entry: which branch of the loop body it took
    coll,             \* per matched entry: what the external collaborator did
    returned          \* per matched entry: value transcribe_audio_with_whisper returned

vars == <<tree, dirs, files, pc, job, runs, completed, input_dir, output_dir, matched, todo,
          processed_count, status, coll, returned>>

----------------------------------------------------------------------------
(* Bounds *)

MaxRuns == 2

----------------------------------------------------------------------------
(* Strings and paths *)

\* str.lower() on the tokens file names are made of
Lower(tok) ==
    CASE tok = ".MP4"  -> ".mp4"
      [] tok = ".MP3"  -> ".mp3"
      [] tok = ".FLAC" -> ".flac"
      [] tok = ".AAC"  -> ".aac"
      [] tok = ".WAV"  -> ".wav"
      [] tok = "_AUDIO" -> "_audio"
      [] OTHER -> tok

LowerName(name) == [i \in 1..Len(name) |-> Lower(name[i])]

\* str.endswith(suffix), suffix a sequence of tokens
EndsWith(name, suffix) ==
    /\ Len(name) >= Len(suffix)
    /\ SubSeq(name, Len(name) - Len(suffix) + 1, Len(name)) = suffix

\* the tokens that os.path.splitext takes for an extension
IsExt(tok) == tok \in {".mp4", ".MP4", ".mp3", ".MP3", ".flac", ".FLAC", ".aac", ".AAC",
                       ".wav", ".WAV", ".txt", ".json"}

\* os.path.splitext(file)[0]
splitext0(name) ==
    IF Len(name) > 1 /\ IsExt(name[Len(name)]) THEN SubSeq(name, 1, Len(name) - 1) ELSE name

\* os.path.join(dir, file name)
JoinFile(dir, name) == [dir |-> dir, file |-> name]

\* os.path.relpath(root, start) for root = start or below it; <<".">> is '.'
relpath(root, start) ==
    IF root = start THEN <<".">> ELSE SubSeq(root, Len(start) + 1, Len(root))

\* os.path.join(output_dir, rel_path)
JoinDir(base, rel) == base \o rel

\* dir is top or below it
Under(dir, top) == Len(dir) >= Len(top) /\ SubSeq(dir, 1, Len(top)) = top

\* file.lower().endswith('.mp4')
IsMp4(name) == EndsWith(LowerName(name), <<".mp4">>)

\* file.lower().endswith(('_audio.wav', '.mp3', '.aac', '.flac'))
IsAudio(name) ==
    \/ EndsWith(LowerName(name), <<"_audio", ".wav">>)
    \/ EndsWith(LowerName(name), <<".mp3">>)
    \/ EndsWith(LowerName(name), <<".aac">>)
    \/ EndsWith(LowerName(name), <<".flac">>)

----------------------------------------------------------------------------
(* File contents *)

Media(speech) == [kind |-> "media", speech |-> speech]  \* a recording, and what is said in it
Symlink    == [kind |-> "symlink"]     \* a dangling link: listed by os.walk, os.path.exists is False
Foreign    == [kind |-> "foreign"]     \* a file of the input tree that is no recording
Truncated  == [kind |-> "truncated"]   \* opened for writing, the write did not complete
VideoOf(src) == [kind |-> "video", src |-> src]
AudioOf(src) == [kind |-> "audio", src |-> src]
TextOf(t)    == [kind |-> "text", text |-> t]
JsonOf(rec)  == [kind |-> "json", obj |-> rec]

----------------------------------------------------------------------------
(* The file system *)

InRoot  == <<"IN">>
OutRoot == <<"OUT">>

\* the input tree: InRoot/, a/, a/b/, e/ (e holds nothing, a holds only b)
InputDirs == {InRoot, InRoot \o <<"a">>, InRoot \o <<"a", "b">>, InRoot \o <<"e">>}

InputFiles ==
    (JoinFile(InRoot, <<"clip", ".mp3">>)                     :> Media("hello"))  @@
    (JoinFile(InRoot, <<"clip", ".flac">>)                    :> Media("hello world"))  @@
    (JoinFile(InRoot, <<"ghost", ".aac">>)                    :> Symlink) @@
    (JoinFile(InRoot, <<"noise", ".wav">>)                    :> Media(""))  @@
    (JoinFile(InRoot, <<"movie", ".mp4">>)                    :> Media("hello"))  @@
    (JoinFile(InRoot, <<"lost", ".mp4">>)                     :> Symlink) @@
    (JoinFile(InRoot \o <<"a", "b">>, <<"talk", "_audio", ".wav">>) :> Media("hello world")) @@
    (JoinFile(InRoot \o <<"a", "b">>, <<"talk", "_audio", ".json">>) :> Foreign) @@
    (JoinFile(InRoot \o <<"a", "b">>, <<"Scene", ".MP4">>)    :> Media(""))

\* what an input tree may lack: the two dangling links, one of the two clips;
\* and talk_audio.wav may be a recording without speech
DanglingLinks == {JoinFile(InRoot, <<"ghost", ".aac">>), JoinFile(InRoot, <<"lost", ".mp4">>)}
SecondClip    == {JoinFile(InRoot, <<"clip", ".flac">>)}
Talk          == JoinFile(InRoot \o <<"a", "b">>, <<"talk", "_audio", ".wav">>)
InputTrees ==
    {[p \in DOMAIN InputFiles \ absent |->
         IF p = Talk /\ silent THEN Media("") ELSE InputFiles[p]] :
        absent \in {{}, DanglingLinks, SecondClip, DanglingLinks \cup SecondClip},
        silent \in BOOLEAN}

\* os.path.exists on a file path
FileExists(p) == p \in DOMAIN files /\ files[p] # Symlink

\* os.path.exists on a directory path
DirExists(d) == d \in dirs

\* what os.makedirs(d) creates: d and its missing parents
Prefixes(d) == {SubSeq(d, 1, n) : n \in 1..Len(d)}

\* open(p, 'w') followed by a complete write of content c
Write(fs, p, c) == [q \in DOMAIN fs \cup {p} |-> IF q = p THEN c ELSE fs[q]]

\* the (root, file) pairs of os.walk(top) whose name satisfies the job's test
WalkMp4(top)   == {p \in DOMAIN files : Under(p.dir, top) /\ IsMp4(p.file)}
WalkAudio(top) == {p \in DOMAIN files : Under(p.dir, top) /\ IsAudio(p.file)}

\* os.walk is top-down and lists one directory at a time: an entry can be next
\* when no entry of a directory above its own is left, and no other directory
\* has been begun and not finished
CanBeNext(p, left, all) ==
    /\ p \in left
    /\ \A q \in left : ~(q.dir # p.dir /\ Under(p.dir, q.dir))
    /\ \A q \in left : q.dir # p.dir => \A r \in all : r.dir = q.dir => r \in left

----------------------------------------------------------------------------
(* What the external collaborators may do *)

\* result["text"] of model.transcribe: what is said in the recording, "" when
\* nothing is
Transcripts == {"", "hello", "hello world"}

Unset == "<unset>"

ProcessOutcomes == {"ok", "fail"}                  \* ffmpeg exit status 0 / non-zero
MkdirOutcomes   == {"ok", "fail"}                  \* os.makedirs
LoadOutcomes    == {"ok", "raise"}                 \* whisper.load_model
InferOutcomes   == {"ok", "raise"}                 \* model.transcribe
WriteOutcomes   == {"ok", "open_fail", "write_fail"}  \* open(path, 'w') and the write

\* "-" stands for an operation the code cannot reach, given the outcomes before it
NotReached == "-"

\* the outcomes of the two ffmpeg runs of one split_video_audio call
SplitScenarios ==
    {s \in [v : ProcessOutcomes, a : ProcessOutcomes \cup {NotReached}] :
        (s.a = NotReached) <=> (s.v = "fail")}

\* the outcomes of load_model, transcribe and the two writes of one loop iteration
TranscribeScenarios ==
    {s \in [load : LoadOutcomes, infer : InferOutcomes \cup {NotReached},
            wtxt : WriteOutcomes \cup {NotReached}, wjson : WriteOutcomes \cup {NotReached}] :
        /\ (s.infer = NotReached) <=> (s.load = "raise")
        /\ (s.wtxt = NotReached) <=> (s.infer # "ok")
        /\ (s.wjson = NotReached) <=> (s.wtxt # "ok")}

----------------------------------------------------------------------------
(* split_video_audio.py *)

VideoName(filename_without_ext) == filename_without_ext \o <<"_video", ".mp4">>
AudioName(filename_without_ext) == filename_without_ext \o <<"_audio", ".wav">>

\* split_video_audio(input_file, output_dir) with the outcomes mk, v, a of
\* os.makedirs and of the two ffmpeg runs: the exception it raises ("none" when
\* it returns), the collaborator's part, and the file system it leaves
split_video_audio(input_file, out_dir, mk, v, a) ==
    LET input_path           == input_file.dir
        filename_without_ext == splitext0(input_file.file)
        odir         == IF out_dir = <<>> THEN input_path ELSE out_dir
        video_output == JoinFile(odir, VideoName(filename_without_ext))
        audio_output == JoinFile(odir, AudioName(filename_without_ext))
        dirs1  == IF DirExists(odir) THEN dirs ELSE dirs \cup Prefixes(odir)
        files1 == Write(files, video_output, VideoOf(input_file))
        files2 == Write(files1, audio_output, AudioOf(input_file))
    IN  IF ~FileExists(input_file)
        THEN [raised |-> "FileNotFoundError", coll |-> "none", dirs |-> dirs, files |-> files]
        ELSE IF ~DirExists(odir) /\ mk = "fail"
        THEN [raised |-> "OSError", coll |-> "none", dirs |-> dirs, files |-> files]
        ELSE IF v = "fail"
        THEN [raised |-> "CalledProcessError", coll |-> "video_failed",
              dirs |-> dirs1, files |-> files]
        ELSE IF a = "fail"
        THEN [raised |-> "CalledProcessError", coll |-> "audio_failed",
              dirs |-> dirs1, files |-> files1]
        ELSE [raised |-> "none", coll |-> "ok", dirs |-> dirs1, files |-> files2]

\* the directory of the output tree that mirrors root (both jobs)
current_output_dir(root, in_dir, out_dir) ==
    LET rel_path == relpath(root, in_dir)
    IN  IF rel_path = <<".">> THEN out_dir ELSE JoinDir(out_dir, rel_path)

\* video_output and audio_output of the entry p of the current run
VideoOutput(p) ==
    JoinFile(current_output_dir(p.dir, input_dir, output_dir), VideoName(splitext0(p.file)))
AudioOutput(p) ==
    JoinFile(current_output_dir(p.dir, input_dir, output_dir), AudioName(splitext0(p.file)))

\* (variant: the count is incremented on every path through the loop body)
IncrementAlways(branch) == 1

\* what a branch of the loop body adds to processed_count
Increment(branch) == IF branch \in {"done", "skipped"} THEN 1 ELSE 0

\* (variant: the split entry point writes beside its input, as the other one does)
SplitMainArgsInPlace == [input_dir |-> InRoot, output_dir |-> InRoot]

\* the arguments __main__ of split_video_audio.py passes
SplitMainArgs == [input_dir |-> InRoot, output_dir |-> OutRoot]

CanStart == pc \in {"idle", "done", "aborted"} /\ runs < MaxRuns

\* __main__ of split_video_audio.py up to the first iteration of the walk
StartSplit(mk) ==
    /\ CanStart /\ job = "split"
    /\ runs' = runs + 1
    /\ processed_count' = 0
    /\ IF ~DirExists(output_dir) /\ mk = "fail"
       THEN /\ pc' = "aborted"
            /\ dirs' = dirs
            /\ matched' = {}
       ELSE /\ pc' = "running"
            /\ dirs' = dirs \cup Prefixes(output_dir)
            /\ matched' = WalkMp4(input_dir)
    /\ UNCHANGED <<tree, files, job, completed, input_dir, output_dir>>
    /\ todo' = matched'
    /\ status' = [p \in matched' |-> "pending"]
    /\ coll' = [p \in matched' |-> "none"]
    /\ returned' = [p \in matched' |-> Unset]

\* one iteration of "for file in files" of process_directory_recursively
SplitFile(p, mk, v, a) ==
    /\ pc = "running" /\ job = "split"
    /\ CanBeNext(p, todo, matched)
    /\ LET r == split_video_audio(p, current_output_dir(p.dir, input_dir, output_dir), mk, v, a)
           branch == IF r.raised = "none" THEN "done" ELSE "exc"
       IN  /\ dirs' = r.dirs
           /\ files' = r.files
           /\ status' = [status EXCEPT ![p] = branch]
           /\ coll' = [coll EXCEPT ![p] = r.coll]
           /\ processed_count' = processed_count + Increment(branch)
    /\ todo' = todo \ {p}
    /\ UNCHANGED <<tree, pc, job, runs, completed, input_dir, output_dir, matched, returned>>

\* return processed_count
Return ==
    /\ pc = "running" /\ todo = {}
    /\ pc' = "done"
    /\ completed' = completed + 1
    /\ UNCHANGED <<tree, dirs, files, job, runs, input_dir, output_dir, matched, todo,
                   processed_count, status, coll, returned>>

----------------------------------------------------------------------------
(* audio_transcription.py *)

\* (variant: no try/except around the body, a missing file raises)
transcribe_unguarded(audio_file, load, infer) ==
    IF ~FileExists(audio_file)
    THEN [text |-> "", raised |-> TRUE, coll |-> "none"]
    ELSE IF load = "raise"
    THEN [text |-> "", raised |-> TRUE, coll |-> "load_raise"]
    ELSE IF infer = "raise"
    THEN [text |-> "", raised |-> TRUE, coll |-> "infer_raise"]
    ELSE [text |-> files[audio_file].speech, raised |-> FALSE, coll |-> "ok"]

\* transcribe_audio_with_whisper(audio_file) with the outcomes of
\* whisper.load_model and model.transcribe: the text returned, whether an
\* exception leaves the function, and what was asked of the collaborator
transcribe_audio_with_whisper(audio_file, load, infer) ==
    IF ~FileExists(audio_file)
    THEN [text |-> "", raised |-> FALSE, coll |-> "none"]
    ELSE IF load = "raise"
    THEN [text |-> "", raised |-> FALSE, coll |-> "load_raise"]
    ELSE IF infer = "raise"
    THEN [text |-> "", raised |-> FALSE, coll |-> "infer_raise"]
    ELSE [text |-> files[audio_file].speech, raised |-> FALSE, coll |-> "ok"]

TxtName(filename_without_ext)  == filename_without_ext \o <<".txt">>
JsonName(filename_without_ext) == filename_without_ext \o <<".json">>

\* (variant: the sidecar names the audio file by its path relative to input_dir)
SidecarRelative(input_file, transcription) ==
    [audio_file |-> JoinFile(relpath(input_file.dir, input_dir), input_file.file),
     transcription |-> transcription, language |-> "en"]

\* the dict json.dump writes
Sidecar(input_file, transcription) ==
    [audio_file |-> input_file, transcription |-> transcription, language |-> "en"]

\* (variant: no skip of what is already transcribed)
NeverSkip(output_file) == FALSE

\* "if os.path.exists(output_file)": skip, already transcribed
AlreadyTranscribed(output_file) == FileExists(output_file)

\* with open(path, 'w') as f: write content -- under outcome w
WriteFile(fs, path, content, w) ==
    CASE w = "ok"         -> Write(fs, path, content)
      [] w = "write_fail" -> Write(fs, path, Truncated)
      [] OTHER            -> fs

\* the try block of process_audio_directory for input_file: the branch taken
\* and the files it leaves
TryBlock(input_file, output_file, json_output, load, infer, wtxt, wjson) ==
    IF AlreadyTranscribed(output_file)
    THEN [branch |-> "skipped", files |-> files, coll |-> "none", returned |-> Unset]
    ELSE LET t == transcribe_audio_with_whisper(input_file, load, infer)
             files1 == WriteFile(files, output_file, TextOf(t.text), wtxt)
             files2 == WriteFile(files1, json_output, JsonOf(Sidecar(input_file, t.text)), wjson)
         IN  IF t.raised
             THEN [branch |-> "exc", files |-> files, coll |-> t.coll, returned |-> Unset]
             ELSE IF t.text = ""
             THEN [branch |-> "empty", files |-> files, coll |-> t.coll, returned |-> t.text]
             ELSE IF wtxt # "ok"
             THEN [branch |-> "exc", files |-> files1, coll |-> t.coll, returned |-> t.text]
             ELSE IF wjson # "ok"
             THEN [branch |-> "exc", files |-> files2, coll |-> t.coll, returned |-> t.text]
             ELSE [branch |-> "done", files |-> files2, coll |-> t.coll, returned |-> t.text]

\* the arguments __main__ of audio_transcription.py passes: output_dir = input_dir
TranscribeMainArgs == [input_dir |-> InRoot, output_dir |-> InRoot]

\* output_file and json_output of the entry p of the current run
OutputFile(p) ==
    JoinFile(current_output_dir(p.dir, input_dir, output_dir), TxtName(splitext0(p.file)))
JsonOutput(p) ==
    JoinFile(current_output_dir(p.dir, input_dir, output_dir), JsonName(splitext0(p.file)))

\* process_audio_directory up to the loop over audio_files
StartTranscribe(mk) ==
    /\ CanStart /\ job = "transcribe"
    /\ runs' = runs + 1
    /\ processed_count' = 0
    /\ IF ~DirExists(output_dir) /\ mk = "fail"
       THEN /\ pc' = "aborted"
            /\ dirs' = dirs
            /\ matched' = {}
       ELSE /\ pc' = "running"
            /\ dirs' = dirs \cup Prefixes(output_dir)
            /\ matched' = WalkAudio(input_dir)
    /\ UNCHANGED <<tree, files, job, completed, input_dir, output_dir>>
    /\ todo' = matched'
    /\ status' = [p \in matched' |-> "pending"]
    /\ coll' = [p \in matched' |-> "none"]
    /\ returned' = [p \in matched' |-> Unset]

\* one iteration of "for root, file in tqdm(audio_files)"
TranscribeFile(p, mk, load, infer, wtxt, wjson) ==
    /\ pc = "running" /\ job = "transcribe"
    /\ CanBeNext(p, todo, matched)
    /\ LET cod == current_output_dir(p.dir, input_dir, output_dir)
           r == TryBlock(p, OutputFile(p), JsonOutput(p), load, infer, wtxt, wjson)
       IN  IF ~DirExists(cod) /\ mk = "fail"
           THEN \* os.makedirs raises outside the try block: the run ends
                /\ pc' = "aborted"
                /\ UNCHANGED <<dirs, files, status, coll, returned, processed_count, todo>>
           ELSE /\ pc' = pc
                /\ dirs' = dirs \cup Prefixes(cod)
                /\ files' = r.files
                /\ status' = [status EXCEPT ![p] = r.branch]
                /\ coll' = [coll EXCEPT ![p] = r.coll]
                /\ returned' = [returned EXCEPT ![p] = r.returned]
                /\ processed_count' = processed_count + Increment(r.branch)
                /\ todo' = todo \ {p}
    /\ UNCHANGED <<tree, job, runs, completed, input_dir, output_dir, matched>>

----------------------------------------------------------------------------
(* The system *)

\* A behaviour runs, and re-runs, one command on one pair of trees: either
\* entry point as its __main__ calls it, or process_audio_directory called
\* with an output directory apart from the input tree
Commands ==
    { [job |-> "split", input_dir |-> SplitMainArgs.input_dir,
       output_dir |-> SplitMainArgs.output_dir],
      [job |-> "transcribe", input_dir |-> TranscribeMainArgs.input_dir,
       output_dir |-> TranscribeMainArgs.output_dir],
      [job |-> "transcribe", input_dir |-> InRoot, output_dir |-> OutRoot] }

Init ==
    /\ tree \in InputTrees
    /\ dirs = InputDirs
    /\ files = tree
    /\ pc = "idle"
    /\ runs = 0
    /\ completed = 0
    /\ \E c \in Commands : job = c.job /\ input_dir = c.input_dir /\ output_dir = c.output_dir
    /\ matched = {}
    /\ todo = {}
    /\ processed_count = 0
    /\ status = [p \in {} |-> "pending"]
    /\ coll = [p \in {} |-> "none"]
    /\ returned = [p \in {} |-> Unset]

Next ==
    \/ \E mk \in MkdirOutcomes : StartSplit(mk)
    \/ \E p \in todo, mk \in MkdirOutcomes, s \in SplitScenarios :
          SplitFile(p, mk, s.v, s.a)
    \/ \E mk \in MkdirOutcomes : StartTranscribe(mk)
    \/ \E p \in todo, mk \in MkdirOutcomes, s \in TranscribeScenarios :
          TranscribeFile(p, mk, s.load, s.infer, s.wtxt, s.wjson)
    \/ Return

Spec == Init /\ [][Next]_vars

----------------------------------------------------------------------------
(* Vocabulary of the properties *)

\* the branches of the loop body that leave an entry processed
Processed == {"done", "skipped"}

\* a collaborator error: a non-zero ffmpeg exit, or an exception of whisper
CollaboratorErrors == {"video_failed", "audio_failed", "load_raise", "infer_raise"}

\* the entries the loop has been through in the current run
Visited == matched \ todo

\* the files, and the directories, of the file system that lie under top
FilesUnder(fs, top) == {p \in DOMAIN fs : Under(p.dir, top)}
DirsUnder(top) == {d \in dirs : Under(d, top)}

\* p has its outputs in the output tree
HasSplitOutputs(p) == VideoOutput(p) \in DOMAIN files /\ AudioOutput(p) \in DOMAIN files
HasNoSplitOutput(p) == VideoOutput(p) \notin DOMAIN files /\ AudioOutput(p) \notin DOMAIN files
HasOutputs(p) == IF job = "split" THEN HasSplitOutputs(p) ELSE OutputFile(p) \in DOMAIN files

\* the behaviour runs an entry point with the arguments its __main__ passes
EntryPointRun ==
    \/ job = "split" /\ input_dir = SplitMainArgs.input_dir
                     /\ output_dir = SplitMainArgs.output_dir
    \/ job = "transcribe" /\ input_dir = TranscribeMainArgs.input_dir
                          /\ output_dir = TranscribeMainArgs.output_dir

\* the step takes entry p through the loop body
Visits(p) == p \in todo /\ p \notin todo'

----------------------------------------------------------------------------
(* C1 *)

\* C1: after a split-job run, every .mp4 file of the input tree either has both
\* {base}_video.mp4 and {base}_audio.wav in the mirrored directory and is counted,
\* or its split failed, and then neither output exists and it is not counted,
\* whichever of the two ffmpeg runs failed.
C1_SplitAllOrNothing ==
    (job = "split" /\ pc = "done") =>
        /\ processed_count = Cardinality({p \in matched : status[p] = "done"})
        /\ \A p \in matched : FileExists(p) =>
              \/ status[p] = "done" /\ HasSplitOutputs(p)
              \/ status[p] = "exc" /\ HasNoSplitOutput(p)

----------------------------------------------------------------------------
(* C2 *)

\* C2 as stated: a second run of the transcribe job on the same trees, after a
\* first run that returned, leaves the set and the contents of the files as the
\* first run left them, and does not invoke the collaborator for an entry whose
\* .txt exists.
C2_SecondRunChangesNothing ==
    [][(job = "transcribe" /\ completed >= 1) =>
          /\ files' = files
          /\ \A p \in matched : (Visits(p) /\ FileExists(OutputFile(p))) => coll'[p] = "none"]_vars

\* C2 amended: an audio file whose .txt exists is skipped and counted by the
\* run that reaches it, without a call of the collaborator, and from then on no
\* step of any run on the same trees changes its .txt or its .json; the files
\* without a .txt are attempted again and may gain outputs.
C2_DoneStaysDone ==
    [][job = "transcribe" =>
          \A p \in matched : FileExists(OutputFile(p)) =>
              /\ OutputFile(p) \in DOMAIN files' /\ files'[OutputFile(p)] = files[OutputFile(p)]
              /\ (JsonOutput(p) \in DOMAIN files') = (JsonOutput(p) \in DOMAIN files)
              /\ JsonOutput(p) \in DOMAIN files => files'[JsonOutput(p)] = files[JsonOutput(p)]
              /\ Visits(p) => /\ status'[p] = "skipped"
                              /\ coll'[p] = "none"
                              /\ processed_count' = processed_count + 1]_vars

\* a second run has returned: it skipped an entry the first run transcribed and
\* transcribed one the first run had left without a .txt
C2_Witness ==
    /\ job = "transcribe" /\ runs = 2 /\ pc = "done"
    /\ \E p \in matched : status[p] = "skipped" /\ files[OutputFile(p)] = TextOf(tree[p].speech)
    /\ \E q \in matched : status[q] = "done"

----------------------------------------------------------------------------
(* C3 *)

\* the run has returned, and k is the one entry that was not processed
OnlyFailure(k) ==
    /\ pc = "done"
    /\ k \in matched /\ coll[k] \in CollaboratorErrors
    /\ {p \in matched : status[p] \notin Processed} = {k}

----------------------------------------------------------------------------
(* C4 *)

\* C4: after a run of either job, every directory of the input tree has its
\* mirror under the output root, a directory without matching files included.
C4_EveryDirMirrored ==
    pc = "done" =>
        \A d \in DirsUnder(input_dir) : DirExists(current_output_dir(d, input_dir, output_dir))

----------------------------------------------------------------------------
(* C5 *)

\* C5 as stated: no run of either job, with the arguments the entry points pass,
\* creates, overwrites or deletes a file or a directory under the input root.
C5_InputTreeUntouched ==
    EntryPointRun =>
        /\ [p \in FilesUnder(files, input_dir) |-> files[p]] = tree
        /\ DirsUnder(input_dir) = InputDirs

\* C5 amended: with the arguments an entry point passes, or an output root
\* outside the input tree, no run deletes a file, creates or removes a
\* directory under the input root, or creates or overwrites a file there that
\* is not the {base}.txt or {base}.json of a matched audio file; a run whose
\* output root lies outside the input tree (the split entry point) leaves the
\* input tree as it was; the transcribe entry point, whose output_dir is its
\* input_dir, creates {base}.txt and creates or overwrites {base}.json inside
\* the input tree.
C5_InputTreePreserved ==
    /\ (EntryPointRun \/ ~Under(output_dir, input_dir)) =>
          /\ DirsUnder(input_dir) = InputDirs
          /\ DOMAIN tree \subseteq DOMAIN files
          /\ \A p \in FilesUnder(files, input_dir) :
                (p \notin DOMAIN tree \/ files[p] # tree[p]) =>
                    /\ job = "transcribe" /\ output_dir = input_dir
                    /\ \E q \in WalkAudio(input_dir) : p \in {OutputFile(q), JsonOutput(q)}
                    /\ p \in DOMAIN tree => \E q \in WalkAudio(input_dir) : p = JsonOutput(q)
    /\ ~Under(output_dir, input_dir) =>
          [p \in FilesUnder(files, input_dir) |-> files[p]] = tree

\* the transcribe entry point has returned: the input tree holds a new .txt
\* and the .json it had beside talk_audio.wav is overwritten
C5_Witness ==
    /\ job = "transcribe" /\ output_dir = input_dir /\ pc = "done"
    /\ \E p \in matched : status[p] = "done" /\ OutputFile(p) \notin DOMAIN tree
    /\ \E q \in matched : JsonOutput(q) \in DOMAIN tree /\ files[JsonOutput(q)] # tree[JsonOutput(q)]

----------------------------------------------------------------------------
(* C6 *)

\* C6: when the transcribe job has transcribed the audio file F with the
\* non-empty text T, the .txt holds exactly T and the .json beside it holds
\* exactly {audio_file: F, transcription: T, language: "en"}, F the full input
\* path, the text of the sidecar being the text of the .txt.
C6_SidecarContent ==
    job = "transcribe" =>
        \A F \in matched : status[F] = "done" =>
            LET T == returned[F]
            IN  /\ T \in Transcripts \ {""}
                /\ coll[F] = "ok"
                /\ files[OutputFile(F)] = TextOf(T)
                /\ files[JsonOutput(F)] =
                      JsonOf([audio_file |-> F, transcription |-> T, language |-> "en"])
                /\ files[JsonOutput(F)].obj.transcription = files[OutputFile(F)].text

\* a run has returned with an audio file of a subdirectory transcribed
C6_Witness ==
    /\ job = "transcribe" /\ pc = "done"
    /\ \E F \in matched : status[F] = "done" /\ F.dir # input_dir /\ returned[F] = "hello world"

----------------------------------------------------------------------------
(* C7 *)

\* C7: transcribe_audio_with_whisper lets no error through to its caller: for
\* a missing audio file it returns "" without a call of the collaborator, for a
\* failure of load_model or of transcribe it returns ""; the loop body then
\* takes the empty-text branch, writes no file and does not count the entry.
C7_FailSoft ==
    [][job = "transcribe" =>
          \A p \in todo :
              (/\ Visits(p)
               /\ status'[p] # "skipped"
               /\ ~FileExists(p) \/ coll'[p] \in {"load_raise", "infer_raise"}) =>
                  /\ status'[p] = "empty"
                  /\ returned'[p] = ""
                  /\ files' = files
                  /\ processed_count' = processed_count
                  /\ ~FileExists(p) => coll'[p] = "none"]_vars

\* a run has been through a missing audio file and through a failure of each
\* of load_model and transcribe
C7_Witness ==
    /\ job = "transcribe"
    /\ \E p \in Visited : ~FileExists(p) /\ status[p] = "empty"
    /\ \E q \in Visited : coll[q] = "load_raise" /\ status[q] = "empty"
    /\ \E r \in Visited : coll[r] = "infer_raise" /\ status[r] = "empty"

----------------------------------------------------------------------------
(* C8 *)

\* C8: a run of the transcribe job without a file-system error returns the
\* number of matched audio files whose .txt exists when it returns.
C8_CountIsTextFiles ==
    (job = "transcribe" /\ pc = "done" /\ \A p \in matched : status[p] # "exc") =>
        processed_count = Cardinality({p \in matched : OutputFile(p) \in DOMAIN files})

----------------------------------------------------------------------------
(* C9 *)

\* C9: in the transcribe job, whenever the .txt of a matched audio file exists
\* its .json exists too, so an entry that ended in the exception branch is
\* attempted again by the next run.
C9_TextHasSidecar ==
    job = "transcribe" =>
        \A p \in WalkAudio(input_dir) :
            OutputFile(p) \in DOMAIN files => JsonOutput(p) \in DOMAIN files

----------------------------------------------------------------------------
(* C10 *)

\* C10: in a transcribe run that starts without text files, no audio file that
\* exists is skipped: the collaborator is called for each, two files that
\* differ only in their extension included.
C10_NoSkipInFirstRun ==
    (job = "transcribe" /\ runs = 1) =>
        \A p \in Visited : FileExists(p) => status[p] # "skipped" /\ coll[p] # "none"

====
